---- MODULE Spec2Model ----
(***************************************************************************)
(* JNI bindings for libsecp256k1 (scalus_secp256k1.c): the lazily created  *)
(* process-wide verification context (ctx, ctx_init_once, get_context) and *)
(* the four JNI entry points initContext, isValidPubKey, ecdsaVerify and   *)
(* schnorrVerify, each called from any number of Java threads.             *)
(*                                                                         *)
(* A byte array is abstracted to its length and a content class `data`:    *)
(* data = 0 is content that no parse accepts, data = d > 0 is a well       *)
(* formed encoding (for the array's own length) that belongs to the        *)
(* signing relation d: a signature of class d verifies for the message of  *)
(* class d under the key of class d and for nothing else.                  *)
(***************************************************************************)
EXTENDS Integers, Sequences, FiniteSets, TLC

\* ------------------------------------------------------------------ bounds

\* Number of Java threads calling into the library concurrently.
NThreads == 2

\* Content classes of a byte array are 0..MaxData.
MaxData == 2

\* ------------------------------------------------------------- constants

NULL == 0
JNI_FALSE == 0
JNI_TRUE == 1
JNI_ABORT == 2

Threads == 1..NThreads
Data == 0..MaxData

\* Array lengths offered to the entry points: empty, the three fixed shapes
\* 32 / 33 / 64, the uncompressed key 65, and one longer than any shape.
Lens == {0, 32, 33, 64, 65, 100}

Buf(l, d) == [len |-> l, data |-> d]
Buffers == {Buf(l, d) : l \in Lens, d \in Data}

GatewayOps == {"isValidPubKey", "ecdsaVerify", "schnorrVerify"}

\* The jbyteArray parameters of each entry point, in the order in which the
\* code acquires (and releases) them.
BufOrder(o) ==
    CASE o = "isValidPubKey" -> <<"pubKey">>
      [] o = "ecdsaVerify"   -> <<"msg32", "sig64", "pubKey33">>
      [] o = "schnorrVerify" -> <<"sig64", "msg", "pubKey32">>
      [] OTHER               -> <<>>

BufNames(o) == {BufOrder(o)[i] : i \in 1..Len(BufOrder(o))}

AllNames == {"pubKey", "msg32", "sig64", "pubKey33", "msg", "pubKey32"}

NoBuf == Buf(0, 0)

\* Arguments of a call: every parameter the entry point does not have is NoBuf.
MkArgs(o, f) == [n \in AllNames |-> IF n \in BufNames(o) THEN f[n] ELSE NoBuf]

NoArgs == [n \in AllNames |-> NoBuf]
NoBytes == [n \in AllNames |-> FALSE]

\* ----------------------------------------------------------------- state

VARIABLES
    ctx,            \* static secp256k1_context* ctx
    ctx_init_once,  \* static pthread_once_t ctx_init_once
    creates,        \* history: number of secp256k1_context_create calls
    returned,       \* history: values returned by get_context
    handles,        \* history: values returned by initContext
    pc,             \* per thread: position in the entry point
    op,             \* per thread: entry point being executed
    args,           \* per thread: the jbyteArray arguments
    context,        \* per thread: local `context`
    len,            \* per thread: local pubkey_len / msg_len
    bytes,          \* per thread: local *_bytes pointers, TRUE = non-NULL
    result,         \* per thread: local `result`
    ret,            \* per thread: value returned to Java
    trace           \* per thread: history of the calls made by this call

vars == <<ctx, ctx_init_once, creates, returned, handles, pc, op, args,
          context, len, bytes, result, ret, trace>>

shared == <<ctx, ctx_init_once, creates, returned, handles>>

\* One call made by an entry point: the function, the array it is about,
\* the length handed over or read, and the value it returned.
Ev(f, b, l, r) == [fn |-> f, buf |-> b, len |-> l, r |-> r]

Init ==
    /\ ctx = NULL
    /\ ctx_init_once = "INIT"
    /\ creates = 0
    /\ returned = {}
    /\ handles = {}
    /\ pc = [t \in Threads |-> "idle"]
    /\ op = [t \in Threads |-> "none"]
    /\ args = [t \in Threads |-> NoArgs]
    /\ context = [t \in Threads |-> NULL]
    /\ len = [t \in Threads |-> 0]
    /\ bytes = [t \in Threads |-> NoBytes]
    /\ result = [t \in Threads |-> 0]
    /\ ret = [t \in Threads |-> 0]
    /\ trace = [t \in Threads |-> <<>>]

\* ------------------------------------------- the curve library (libsecp256k1)

\* secp256k1_context_create: a freshly allocated context, distinct from every
\* earlier one, or NULL when the allocation fails.
secp256k1_context_create(n) == {NULL, n + 1}

\* secp256k1_ec_pubkey_parse(ctx, &pubkey, input, inputlen): 1 when the
\* inputlen bytes are a compressed (33) or uncompressed (65) point.
secp256k1_ec_pubkey_parse(input, inputlen) ==
    IF inputlen \in {33, 65} /\ input.len = inputlen /\ input.data # 0
    THEN 1 ELSE 0

\* secp256k1_xonly_pubkey_parse(ctx, &pubkey, input32)
secp256k1_xonly_pubkey_parse(input32) ==
    IF input32.len = 32 /\ input32.data # 0 THEN 1 ELSE 0

\* secp256k1_ecdsa_signature_parse_compact(ctx, &sig, input64)
secp256k1_ecdsa_signature_parse_compact(input64) ==
    IF input64.len = 64 /\ input64.data # 0 THEN 1 ELSE 0

\* secp256k1_ecdsa_verify(ctx, &sig, msghash32, &pubkey): reads 32 bytes of
\* the digest; sig and pubkey have been parsed.
secp256k1_ecdsa_verify(sig, msghash32, pubkey) ==
    IF sig.data = msghash32.data /\ sig.data = pubkey.data THEN 1 ELSE 0

\* secp256k1_schnorrsig_verify(ctx, sig64, msg, msglen, &pubkey): the
\* signature is over exactly the msglen bytes handed over.
secp256k1_schnorrsig_verify(sig64, m, msglen, pubkey) ==
    IF msglen = m.len /\ sig64.data = m.data /\ sig64.data = pubkey.data
    THEN 1 ELSE 0

\* ------------------------------------------------------- context manager

\* Mutant of OnceRunning: the control is not claimed, as with a plain flag
\* that is set only after the construction.
OnceRunningUnclaimed == "INIT"

\* Mutant of OnceRunning: the control is marked complete before init_routine
\* has run, so that later callers do not wait.
OnceRunningDone == "DONE"

\* pthread_once: the state of the once control while the thread that won
\* the race runs init_routine.
OnceRunning == "IN_PROGRESS"

\* Mutant of OnceComplete: the completion is never published, the control
\* stays as it was while init_routine ran.
OnceCompleteStuck == "IN_PROGRESS"

\* Mutant of OnceComplete: the control is reset instead of completed.
OnceCompleteReset == "INIT"

\* pthread_once: the state of the once control after init_routine returned.
OnceComplete == "DONE"

\* Mutant of OnceClaimable: a completed control whose routine left no context
\* is claimed again, so that the construction is retried.
OnceClaimableRetry(once, c) == once = "INIT" \/ (once = "DONE" /\ c = NULL)

\* pthread_once: the control is claimed by a caller that finds it in its
\* initial state, whatever init_routine left in ctx.
OnceClaimable(once, c) == once = "INIT"

\* JNI entry: thread t calls entry point o with arguments a; the first
\* statement of every entry point is the call of get_context.
Enter(t, o, a) ==
    /\ pc[t] = "idle"
    /\ pc' = [pc EXCEPT ![t] = "get_context"]
    /\ op' = [op EXCEPT ![t] = o]
    /\ args' = [args EXCEPT ![t] = a]
    /\ trace' = [trace EXCEPT ![t] = <<Ev("get_context", "", 0, 0)>>]
    /\ UNCHANGED <<shared, context, len, bytes, result, ret>>

initContext(t) == Enter(t, "initContext", NoArgs)

isValidPubKey(t, K) ==
    /\ pc[t] = "idle"
    /\ \E k \in K : Enter(t, "isValidPubKey", MkArgs("isValidPubKey", [pubKey |-> k]))

ecdsaVerify(t, M, S, K) ==
    /\ pc[t] = "idle"
    /\ \E m \in M, s \in S, k \in K :
        Enter(t, "ecdsaVerify",
              MkArgs("ecdsaVerify", [msg32 |-> m, sig64 |-> s, pubKey33 |-> k]))

schnorrVerify(t, S, M, K) ==
    /\ pc[t] = "idle"
    /\ \E s \in S, m \in M, k \in K :
        Enter(t, "schnorrVerify",
              MkArgs("schnorrVerify", [sig64 |-> s, msg |-> m, pubKey32 |-> k]))

\* pthread_once(&ctx_init_once, init_context), first caller: the control is
\* claimed and this thread goes on to run init_context.
pthread_once_first(t) ==
    /\ pc[t] = "get_context"
    /\ OnceClaimable(ctx_init_once, ctx)
    /\ ctx_init_once' = OnceRunning
    /\ pc' = [pc EXCEPT ![t] = "init_context"]
    /\ UNCHANGED <<ctx, creates, returned, handles, op, args, context, len,
                   bytes, result, ret, trace>>

\* init_context: ctx = secp256k1_context_create(SECP256K1_CONTEXT_VERIFY)
init_context(t) ==
    /\ pc[t] = "init_context"
    /\ \E p \in secp256k1_context_create(creates) :
          /\ ctx' = p
          /\ trace' = [trace EXCEPT ![t] =
                         Append(@, Ev("secp256k1_context_create", "", 0, p))]
    /\ creates' = creates + 1
    /\ pc' = [pc EXCEPT ![t] = "init_done"]
    /\ UNCHANGED <<ctx_init_once, returned, handles, op, args, context, len,
                   bytes, result, ret>>

\* pthread_once, first caller, after init_routine returned: the control is
\* marked complete and the waiting threads are let through.
pthread_once_complete(t) ==
    /\ pc[t] = "init_done"
    /\ ctx_init_once' = OnceComplete
    /\ pc' = [pc EXCEPT ![t] = "return_ctx"]
    /\ UNCHANGED <<ctx, creates, returned, handles, op, args, context, len,
                   bytes, result, ret, trace>>

\* pthread_once, any later caller: returns once the control is complete;
\* while another thread runs init_routine the caller is blocked here.
pthread_once_later(t) ==
    /\ pc[t] = "get_context"
    /\ ctx_init_once = "DONE"
    /\ pc' = [pc EXCEPT ![t] = "return_ctx"]
    /\ UNCHANGED <<shared, op, args, context, len, bytes, result, ret, trace>>

\* get_context: return ctx; the caller stores it in its local `context`.
get_context_return(t) ==
    /\ pc[t] = "return_ctx"
    /\ context' = [context EXCEPT ![t] = ctx]
    /\ returned' = returned \cup {ctx}
    /\ pc' = [pc EXCEPT ![t] = "have_ctx"]
    /\ UNCHANGED <<ctx, ctx_init_once, creates, handles, op, args, len, bytes,
                   result, ret, trace>>

\* secp256k1_init_context: return (jlong)(uintptr_t)context
initContext_return(t) ==
    /\ pc[t] = "have_ctx"
    /\ op[t] = "initContext"
    /\ ret' = [ret EXCEPT ![t] = context[t]]
    /\ handles' = handles \cup {context[t]}
    /\ pc' = [pc EXCEPT ![t] = "done"]
    /\ UNCHANGED <<ctx, ctx_init_once, creates, returned, op, args, context,
                   len, bytes, result, trace>>

\* ---------------------------------------------------- verification gateway

Min(S) == CHOOSE x \in S : \A y \in S : x <= y

Append2(tr, evs) == tr \o evs

\* Mutant of ContextUnavailable: the NULL test is missing.
ContextUnavailableNever(c) == FALSE

\* if (context == NULL) return JNI_FALSE;
ContextUnavailable(c) == c = NULL

\* Mutant of LenOk: ecdsaVerify does not test the length of sig64.
LenOkNoSig(o, n, l) ==
    CASE o = "isValidPubKey" -> l = 33 \/ l = 65
      [] o = "ecdsaVerify"   -> CASE n = "msg32"    -> l = 32
                                  [] n = "pubKey33" -> l = 33
                                  [] OTHER          -> TRUE
      [] o = "schnorrVerify" -> CASE n = "sig64"    -> l = 64
                                  [] n = "pubKey32" -> l = 32
                                  [] OTHER          -> TRUE
      [] OTHER               -> TRUE

\* Mutant of LenOk: isValidPubKey accepts compressed keys only.
LenOkCompressedOnly(o, n, l) ==
    CASE o = "isValidPubKey" -> l = 33
      [] o = "ecdsaVerify"   -> CASE n = "msg32"    -> l = 32
                                  [] n = "sig64"    -> l = 64
                                  [] n = "pubKey33" -> l = 33
                                  [] OTHER          -> TRUE
      [] o = "schnorrVerify" -> CASE n = "sig64"    -> l = 64
                                  [] n = "pubKey32" -> l = 32
                                  [] OTHER          -> TRUE
      [] OTHER               -> TRUE

\* The length tests of each entry point, per array.
LenOk(o, n, l) ==
    CASE o = "isValidPubKey" -> l = 33 \/ l = 65
      [] o = "ecdsaVerify"   -> CASE n = "msg32"    -> l = 32
                                  [] n = "sig64"    -> l = 64
                                  [] n = "pubKey33" -> l = 33
                                  [] OTHER          -> TRUE
      [] o = "schnorrVerify" -> CASE n = "sig64"    -> l = 64
                                  [] n = "pubKey32" -> l = 32
                                  [] OTHER          -> TRUE
      [] OTHER               -> TRUE

\* Mutant of LenCheckOrder: schnorrVerify does not test pubKey32.
LenCheckOrderNoKey(o) ==
    CASE o = "isValidPubKey" -> <<"pubKey">>
      [] o = "ecdsaVerify"   -> <<"msg32", "sig64", "pubKey33">>
      [] o = "schnorrVerify" -> <<"sig64">>
      [] OTHER               -> <<>>

\* The arrays whose length is tested, in the order of the tests (|| stops at
\* the first test that fails).
LenCheckOrder(o) ==
    CASE o = "isValidPubKey" -> <<"pubKey">>
      [] o = "ecdsaVerify"   -> <<"msg32", "sig64", "pubKey33">>
      [] o = "schnorrVerify" -> <<"sig64", "pubKey32">>
      [] OTHER               -> <<>>

BadLens(o, a) ==
    {i \in 1..Len(LenCheckOrder(o)) :
        ~LenOk(o, LenCheckOrder(o)[i], a[LenCheckOrder(o)[i]].len)}

\* The local that keeps a length: pubkey_len in isValidPubKey, msg_len in
\* schnorrVerify.
LenLocal(o, a) ==
    CASE o = "isValidPubKey" -> a["pubKey"].len
      [] o = "schnorrVerify" -> a["msg"].len
      [] OTHER               -> 0

\* Mutant of ResultInit: int result = 1;
ResultInitOne == JNI_TRUE

\* int result = 0;
ResultInit == 0

\* Mutant of FailRelease: every view is released, acquired or not.
FailReleaseAll(o, b) == BufOrder(o)

\* The pointers released when an acquisition failed: if (x_bytes) Release(x).
FailRelease(o, b) == SelectSeq(BufOrder(o), LAMBDA n : b[n])

\* Mutant of CleanupRelease: the first view is not released at cleanup.
CleanupReleaseLeak(o) == Tail(BufOrder(o))

\* The pointers released at cleanup (and after the parse of isValidPubKey).
CleanupRelease(o) == BufOrder(o)

\* return result == 1 ? JNI_TRUE : JNI_FALSE;
ToJboolean(r) == IF r = 1 THEN JNI_TRUE ELSE JNI_FALSE

\* Mutant of AfterParse: a failed parse does not go to cleanup.
AfterParseGoesOn(r, next) == next

\* if (parse(...) != 1) goto cleanup; otherwise go on to the next statement.
AfterParse(r, next) == IF r # 1 THEN "cleanup" ELSE next

\* Mutant of ReleaseMode: mode 0, copy back and free.
ReleaseModeCopyBack == JNI_ABORT - JNI_ABORT

\* The mode of every ReleaseByteArrayElements call.
ReleaseMode == JNI_ABORT

\* Mutant of MsgLenArg: the message is taken to be a 32 byte digest.
MsgLenArgDigest(l) == 32

\* (size_t)msg_len handed to secp256k1_schnorrsig_verify
MsgLenArg(l) == l

ReleaseEvents(ns) ==
    [i \in 1..Len(ns) |-> Ev("ReleaseByteArrayElements", ns[i], 0, ReleaseMode)]

\* Leave the entry point with value v.
Finish(t, v) ==
    /\ ret' = [ret EXCEPT ![t] = v]
    /\ pc' = [pc EXCEPT ![t] = "done"]

\* secp256k1_context* context = get_context(); if (context == NULL) ...
CtxCheck(t) ==
    /\ pc[t] = "have_ctx"
    /\ op[t] \in GatewayOps
    /\ IF ContextUnavailable(context[t])
       THEN Finish(t, JNI_FALSE)
       ELSE /\ pc' = [pc EXCEPT ![t] = "len_check"]
            /\ UNCHANGED ret
    /\ UNCHANGED <<shared, op, args, context, len, bytes, result, trace>>

\* The GetArrayLength tests; schnorrVerify then reads msg_len.
LenCheck(t) ==
    /\ pc[t] = "len_check"
    /\ LET o   == op[t]
           a   == args[t]
           ord == LenCheckOrder(o)
           bad == BadLens(o, a)
           k   == IF bad = {} THEN Len(ord) ELSE Min(bad)
           evs == [i \in 1..k |->
                     Ev("GetArrayLength", ord[i], a[ord[i]].len, a[ord[i]].len)]
           more == IF bad = {} /\ o = "schnorrVerify"
                   THEN <<Ev("GetArrayLength", "msg", a["msg"].len, a["msg"].len)>>
                   ELSE <<>>
       IN  /\ trace' = [trace EXCEPT ![t] = Append2(@, evs \o more)]
           /\ IF bad # {}
              THEN /\ Finish(t, JNI_FALSE)
                   /\ len' = IF o = "isValidPubKey"
                             THEN [len EXCEPT ![t] = LenLocal(o, a)]
                             ELSE len
              ELSE /\ pc' = [pc EXCEPT ![t] = "acquire"]
                   /\ len' = [len EXCEPT ![t] = LenLocal(o, a)]
                   /\ UNCHANGED ret
    /\ UNCHANGED <<shared, op, args, context, bytes, result>>

\* The outcomes of the GetByteArrayElements calls of entry point o, as the
\* set of arrays for which the JVM hands out a view: any subset of them, or
\* (each = FALSE) only all of them or none.
ViewOutcomes(o, each) ==
    IF each THEN SUBSET BufNames(o) ELSE {BufNames(o), {}}

\* The GetByteArrayElements calls: each yields a pointer or NULL.
Acquire(t, each) ==
    /\ pc[t] = "acquire"
    /\ \E got \in ViewOutcomes(op[t], each) :
          LET ord == BufOrder(op[t])
              evs == [i \in 1..Len(ord) |->
                        Ev("GetByteArrayElements", ord[i], 0,
                           IF ord[i] \in got THEN 1 ELSE 0)]
          IN  /\ bytes' = [bytes EXCEPT ![t] = [n \in AllNames |-> n \in got]]
              /\ trace' = [trace EXCEPT ![t] = Append2(@, evs)]
    /\ pc' = [pc EXCEPT ![t] = "views_check"]
    /\ UNCHANGED <<shared, op, args, context, len, result, ret>>

\* if (a == NULL || b == NULL || c == NULL) { release the others; return }
ViewsCheck(t) ==
    /\ pc[t] = "views_check"
    /\ IF \E n \in BufNames(op[t]) : ~bytes[t][n]
       THEN /\ trace' = [trace EXCEPT ![t] =
                           Append2(@, ReleaseEvents(FailRelease(op[t], bytes[t])))]
            /\ Finish(t, JNI_FALSE)
            /\ UNCHANGED result
       ELSE /\ pc' = [pc EXCEPT ![t] =
                        IF op[t] = "schnorrVerify" THEN "xonly_parse"
                                                   ELSE "pubkey_parse"]
            /\ result' = [result EXCEPT ![t] = ResultInit]
            /\ UNCHANGED <<ret, trace>>
    /\ UNCHANGED <<shared, op, args, context, len, bytes>>

\* secp256k1_ec_pubkey_parse in isValidPubKey (its result is the result) and
\* in ecdsaVerify (failure goes to cleanup).
PubkeyParse(t) ==
    /\ pc[t] = "pubkey_parse"
    /\ LET n == IF op[t] = "isValidPubKey" THEN "pubKey" ELSE "pubKey33"
           l == IF op[t] = "isValidPubKey" THEN len[t] ELSE 33
           r == secp256k1_ec_pubkey_parse(args[t][n], l)
       IN  /\ trace' = [trace EXCEPT ![t] =
                          Append(@, Ev("secp256k1_ec_pubkey_parse", n, l, r))]
           /\ IF op[t] = "isValidPubKey"
              THEN /\ result' = [result EXCEPT ![t] = r]
                   /\ pc' = [pc EXCEPT ![t] = "cleanup"]
              ELSE /\ UNCHANGED result
                   /\ pc' = [pc EXCEPT ![t] =
                               AfterParse(r, "sig_parse")]
    /\ UNCHANGED <<shared, op, args, context, len, bytes, ret>>

\* secp256k1_ecdsa_signature_parse_compact in ecdsaVerify
SigParse(t) ==
    /\ pc[t] = "sig_parse"
    /\ LET r == secp256k1_ecdsa_signature_parse_compact(args[t]["sig64"])
       IN  /\ trace' = [trace EXCEPT ![t] =
                  Append(@, Ev("secp256k1_ecdsa_signature_parse_compact", "sig64", 0, r))]
           /\ pc' = [pc EXCEPT ![t] = AfterParse(r, "ecdsa_verify")]
    /\ UNCHANGED <<shared, op, args, context, len, bytes, result, ret>>

\* result = secp256k1_ecdsa_verify(context, &sig, msg_bytes, &pubkey)
EcdsaVerifyCall(t) ==
    /\ pc[t] = "ecdsa_verify"
    /\ LET r == secp256k1_ecdsa_verify(args[t]["sig64"], args[t]["msg32"],
                                       args[t]["pubKey33"])
       IN  /\ trace' = [trace EXCEPT ![t] =
                          Append(@, Ev("secp256k1_ecdsa_verify", "msg32", 0, r))]
           /\ result' = [result EXCEPT ![t] = r]
    /\ pc' = [pc EXCEPT ![t] = "cleanup"]
    /\ UNCHANGED <<shared, op, args, context, len, bytes, ret>>

\* secp256k1_xonly_pubkey_parse in schnorrVerify
XonlyParse(t) ==
    /\ pc[t] = "xonly_parse"
    /\ LET r == secp256k1_xonly_pubkey_parse(args[t]["pubKey32"])
       IN  /\ trace' = [trace EXCEPT ![t] =
                  Append(@, Ev("secp256k1_xonly_pubkey_parse", "pubKey32", 0, r))]
           /\ pc' = [pc EXCEPT ![t] = AfterParse(r, "schnorr_verify")]
    /\ UNCHANGED <<shared, op, args, context, len, bytes, result, ret>>

\* result = secp256k1_schnorrsig_verify(context, sig, msg, (size_t)msg_len, &key)
SchnorrVerifyCall(t) ==
    /\ pc[t] = "schnorr_verify"
    /\ LET l == MsgLenArg(len[t])
           r == secp256k1_schnorrsig_verify(args[t]["sig64"], args[t]["msg"], l,
                                            args[t]["pubKey32"])
       IN  /\ trace' = [trace EXCEPT ![t] =
                          Append(@, Ev("secp256k1_schnorrsig_verify", "msg", l, r))]
           /\ result' = [result EXCEPT ![t] = r]
    /\ pc' = [pc EXCEPT ![t] = "cleanup"]
    /\ UNCHANGED <<shared, op, args, context, len, bytes, ret>>

\* cleanup: release every view, return result == 1.
Cleanup(t) ==
    /\ pc[t] = "cleanup"
    /\ trace' = [trace EXCEPT ![t] =
                   Append2(@, ReleaseEvents(CleanupRelease(op[t])))]
    /\ Finish(t, ToJboolean(result[t]))
    /\ UNCHANGED <<shared, op, args, context, len, bytes, result>>

\* The call has returned to Java; its frame is gone and the thread may call
\* again.
Return(t) ==
    /\ pc[t] = "done"
    /\ pc' = [pc EXCEPT ![t] = "idle"]
    /\ op' = [op EXCEPT ![t] = "none"]
    /\ args' = [args EXCEPT ![t] = NoArgs]
    /\ context' = [context EXCEPT ![t] = NULL]
    /\ len' = [len EXCEPT ![t] = 0]
    /\ bytes' = [bytes EXCEPT ![t] = NoBytes]
    /\ result' = [result EXCEPT ![t] = 0]
    /\ ret' = [ret EXCEPT ![t] = 0]
    /\ trace' = [trace EXCEPT ![t] = <<>>]
    /\ UNCHANGED shared

\* ------------------------------------------------------- specifications

\* The steps of a call in progress.
Step(t, each) ==
    \/ pthread_once_first(t)
    \/ init_context(t)
    \/ pthread_once_complete(t)
    \/ pthread_once_later(t)
    \/ get_context_return(t)
    \/ initContext_return(t)
    \/ CtxCheck(t)
    \/ LenCheck(t)
    \/ Acquire(t, each)
    \/ ViewsCheck(t)
    \/ PubkeyParse(t)
    \/ SigParse(t)
    \/ EcdsaVerifyCall(t)
    \/ XonlyParse(t)
    \/ SchnorrVerifyCall(t)
    \/ Cleanup(t)
    \/ Return(t)

\* Concurrent callers: every thread calls any entry point at any time, with
\* one well formed array per parameter; ecdsaVerify is also offered the
\* uncompressed key that it rejects. The JVM hands out all the views of a
\* call or none.
RaceKeys == {Buf(33, 1)}
RaceKeys33 == {Buf(33, 1), Buf(65, 1)}
RaceMsgs == {Buf(32, 1)}
RaceSigs == {Buf(64, 1)}

Next ==
    \E t \in Threads :
        \/ initContext(t)
        \/ isValidPubKey(t, RaceKeys)
        \/ ecdsaVerify(t, RaceMsgs, RaceSigs, RaceKeys33)
        \/ schnorrVerify(t, RaceSigs, RaceMsgs, RaceMsgs)
        \/ Step(t, FALSE)

Spec == Init /\ [][Next]_vars

\* Concurrent callers under a fair scheduler: a thread whose call can take a
\* step is eventually run.
SpecFair == Spec /\ \A t \in Threads : WF_vars(Step(t, FALSE))

\* One caller, every combination of array lengths and contents and every
\* combination of views that the JVM hands out or refuses.
NextGateway ==
    \/ initContext(1)
    \/ isValidPubKey(1, Buffers)
    \/ ecdsaVerify(1, Buffers, Buffers, Buffers)
    \/ schnorrVerify(1, Buffers, Buffers, Buffers)
    \/ Step(1, TRUE)

SpecGateway == Init /\ [][NextGateway]_vars

\* --------------------------------------------------------------- properties

\* The calls made so far by the call that thread t executes.
Events(t) == {trace[t][i] : i \in 1..Len(trace[t])}

Called(t, f) == \E e \in Events(t) : e.fn = f

Count(t, f, n) ==
    Cardinality({i \in 1..Len(trace[t]) : trace[t][i].fn = f /\ trace[t][i].buf = n})

ParseFns == {"secp256k1_ec_pubkey_parse", "secp256k1_xonly_pubkey_parse",
             "secp256k1_ecdsa_signature_parse_compact"}
VerifyFns == {"secp256k1_ecdsa_verify", "secp256k1_schnorrsig_verify"}

\* Positions of a call at which get_context has not yet returned to it.
InGetContext == {"get_context", "init_context", "init_done"}

\* C1: the context constructor runs at most once in the whole run, whatever
\* the number of threads making their first call at the same time.
C1_ConstructedAtMostOnce == creates <= 1

\* C1 witness: one thread has constructed the context and has not yet left
\* pthread_once, while another is held in its own first call.
C1_Witness ==
    \E t, u \in Threads :
        /\ t # u
        /\ pc[t] = "init_done"
        /\ pc[u] = "get_context"
        /\ creates = 1

\* C2: get_context returns to a caller only after init_context has completed,
\* and every get_context return of the run yields the same context value.
C2_SameCompleteContext ==
    /\ \A t \in Threads :
          pc[t] \notin InGetContext \cup {"idle"} =>
             /\ ctx_init_once = "DONE"
             /\ creates >= 1
             /\ \A u \in Threads : pc[u] # "init_context"
             /\ pc[t] # "return_ctx" => context[t] = ctx
    /\ Cardinality(returned) <= 1

\* C2 witness: the thread that constructed the context and another thread
\* both hold the context that get_context returned to them.
C2_Witness ==
    \E t, u \in Threads :
        /\ t # u
        /\ pc[t] = "have_ctx" /\ Called(t, "secp256k1_context_create")
        /\ pc[u] = "have_ctx" /\ ~Called(u, "secp256k1_context_create")
        /\ context[t] # NULL /\ context[u] = context[t]
\* The shapes the entry points are specified to require: the lengths allowed
\* for each fixed-shape array.
Shape(o) ==
    CASE o = "isValidPubKey" -> [pubKey |-> {33, 65}]
      [] o = "ecdsaVerify"   -> [msg32 |-> {32}, sig64 |-> {64}, pubKey33 |-> {33}]
      [] o = "schnorrVerify" -> [sig64 |-> {64}, pubKey32 |-> {32}]
      [] OTHER               -> <<>>

WrongShape(o, a) == \E n \in DOMAIN Shape(o) : a[n].len \notin Shape(o)[n]

Acquired(t, n) ==
    Cardinality({i \in 1..Len(trace[t]) :
        /\ trace[t][i].fn = "GetByteArrayElements"
        /\ trace[t][i].buf = n
        /\ trace[t][i].r = 1})

\* A GetByteArrayElements call of this call returned NULL.
AcquireFailed(t) ==
    \E e \in Events(t) : e.fn = "GetByteArrayElements" /\ e.r = 0

Released(t, n) == Count(t, "ReleaseByteArrayElements", n)

Returned(t) == pc[t] = "done" /\ op[t] \in GatewayOps

C4_LengthsBeforeBuffers ==
    \A t \in Threads :
        \A i \in 1..Len(trace[t]) :
            trace[t][i].fn \in {"GetByteArrayElements"} \cup ParseFns \cup VerifyFns =>
                \A n \in DOMAIN Shape(op[t]) :
                    \E j \in 1..(i - 1) :
                        /\ trace[t][j].fn = "GetArrayLength"
                        /\ trace[t][j].buf = n
                        /\ trace[t][j].len \in Shape(op[t])[n]

\* C4 witness: schnorrVerify has passed its length tests and acquired its
\* three views.
C4_Witness ==
    \E t \in Threads :
        /\ op[t] = "schnorrVerify"
        /\ pc[t] = "xonly_parse"
        /\ \A n \in BufNames(op[t]) : Acquired(t, n) = 1

\* C5: on every exit path every view acquired by a call has been released
\* exactly once when the call returns, and nothing else is ever released.
C5_ViewsReleased ==
    \A t \in Threads :
        \A n \in AllNames :
            /\ Acquired(t, n) <= 1
            /\ Released(t, n) <= Acquired(t, n)
            /\ Returned(t) => Released(t, n) = Acquired(t, n)

\* C5 witness: ecdsaVerify has returned after a failed signature parse, with
\* its three views acquired and released.
C5_Witness ==
    \E t \in Threads :
        /\ Returned(t) /\ op[t] = "ecdsaVerify"
        /\ \E e \in Events(t) :
              e.fn = "secp256k1_ecdsa_signature_parse_compact" /\ e.r = 0
        /\ \A n \in BufNames(op[t]) : Acquired(t, n) = 1 /\ Released(t, n) = 1

\* C6: when the construction of the context has failed, every call of a
\* verification entry point returns false at once: no view is acquired, no
\* parse or verify function is called.
C6_NoContextIsFalse ==
    (ctx_init_once = "DONE" /\ ctx = NULL) =>
        \A t \in Threads :
            op[t] \in GatewayOps =>
                /\ pc[t] \in {"get_context", "return_ctx", "have_ctx", "done"}
                /\ \A e \in Events(t) :
                      e.fn \notin {"GetByteArrayElements"} \cup ParseFns \cup VerifyFns
                /\ pc[t] = "done" => ret[t] = JNI_FALSE

\* C6 witness: without a context, ecdsaVerify has returned false for a valid
\* digest, signature and key.
C6_Witness ==
    \E t \in Threads :
        /\ Returned(t) /\ op[t] = "ecdsaVerify"
        /\ ctx_init_once = "DONE" /\ ctx = NULL
        /\ args[t]["msg32"] = Buf(32, 1)
        /\ args[t]["sig64"] = Buf(64, 1)
        /\ args[t]["pubKey33"] = Buf(33, 1)
        /\ ret[t] = JNI_FALSE

\* C7: ecdsaVerify returns true only if the three lengths are 32 / 64 / 33,
\* the public key parse and the signature parse succeeded and
\* secp256k1_ecdsa_verify returned 1; otherwise it returns false.
C7_EcdsaTrueOnlyIfAll ==
    \A t \in Threads :
        (pc[t] = "done" /\ op[t] = "ecdsaVerify") =>
            /\ ret[t] \in {JNI_TRUE, JNI_FALSE}
            /\ ret[t] = JNI_TRUE =>
                  /\ args[t]["msg32"].len = 32
                  /\ args[t]["sig64"].len = 64
                  /\ args[t]["pubKey33"].len = 33
                  /\ \E e \in Events(t) :
                        e.fn = "secp256k1_ec_pubkey_parse" /\ e.r = 1
                  /\ \E e \in Events(t) :
                        e.fn = "secp256k1_ecdsa_signature_parse_compact" /\ e.r = 1
                  /\ \E e \in Events(t) :
                        e.fn = "secp256k1_ecdsa_verify" /\ e.r = 1

\* C7 witness: ecdsaVerify has returned true.
C7_Witness ==
    \E t \in Threads :
        pc[t] = "done" /\ op[t] = "ecdsaVerify" /\ ret[t] = JNI_TRUE

\* C8: schnorrVerify does not constrain the message length: a call with a 64
\* byte signature and a 32 byte key passes the length tests whatever the
\* message length, secp256k1_schnorrsig_verify is handed the actual message
\* length, and the result is true exactly when the x-only parse succeeded
\* and the verification returned 1.
C8_SchnorrAnyMessageLength ==
    \A t \in Threads :
        op[t] = "schnorrVerify" =>
            /\ \A e \in Events(t) :
                  e.fn = "secp256k1_schnorrsig_verify" => e.len = args[t]["msg"].len
            /\ (pc[t] = "done" /\ context[t] # NULL
                /\ args[t]["sig64"].len = 64 /\ args[t]["pubKey32"].len = 32) =>
                  /\ Called(t, "GetByteArrayElements")
                  /\ ~AcquireFailed(t) => Called(t, "secp256k1_xonly_pubkey_parse")
            /\ pc[t] = "done" =>
                  (ret[t] = JNI_TRUE <=>
                     /\ \E e \in Events(t) :
                           e.fn = "secp256k1_xonly_pubkey_parse" /\ e.r = 1
                     /\ \E e \in Events(t) :
                           e.fn = "secp256k1_schnorrsig_verify" /\ e.r = 1)

\* C8 witness: schnorrVerify has returned true for an empty message.
C8_Witness ==
    \E t \in Threads :
        /\ pc[t] = "done" /\ op[t] = "schnorrVerify"
        /\ args[t]["msg"].len = 0
        /\ ret[t] = JNI_TRUE

\* C9: isValidPubKey returns true exactly when the length is 33 or 65 and the
\* parse of the whole array as a curve point succeeded; it parses every
\* array of such a length unless the context or the view is unavailable,
\* and it calls no verify function.
C9_IsValidPubKeyIsParse ==
    \A t \in Threads :
        op[t] = "isValidPubKey" =>
            /\ \A e \in Events(t) : e.fn \notin VerifyFns
            /\ pc[t] = "done" =>
                  /\ ret[t] = JNI_TRUE <=>
                        /\ args[t]["pubKey"].len \in {33, 65}
                        /\ \E e \in Events(t) :
                              /\ e.fn = "secp256k1_ec_pubkey_parse"
                              /\ e.len = args[t]["pubKey"].len
                              /\ e.r = 1
                  /\ (context[t] # NULL /\ args[t]["pubKey"].len \in {33, 65}
                      /\ ~AcquireFailed(t)) =>
                        Called(t, "secp256k1_ec_pubkey_parse")

\* C9 witness: isValidPubKey has returned true for an uncompressed key.
C9_Witness ==
    \E t \in Threads :
        /\ pc[t] = "done" /\ op[t] = "isValidPubKey"
        /\ args[t]["pubKey"].len = 65
        /\ ret[t] = JNI_TRUE

\* The result a verification call is specified to have, from its arguments,
\* the views it obtained and the context of the process; initContext is no
\* part of it.
Outcome(o, a, b, c) ==
    IF c = NULL \/ WrongShape(o, a) \/ (\E n \in BufNames(o) : ~b[n])
    THEN JNI_FALSE
    ELSE CASE o = "isValidPubKey" ->
                IF secp256k1_ec_pubkey_parse(a["pubKey"], a["pubKey"].len) = 1
                THEN JNI_TRUE ELSE JNI_FALSE
           [] o = "ecdsaVerify" ->
                IF /\ secp256k1_ec_pubkey_parse(a["pubKey33"], 33) = 1
                   /\ secp256k1_ecdsa_signature_parse_compact(a["sig64"]) = 1
                   /\ secp256k1_ecdsa_verify(a["sig64"], a["msg32"], a["pubKey33"]) = 1
                THEN JNI_TRUE ELSE JNI_FALSE
           [] o = "schnorrVerify" ->
                IF /\ secp256k1_xonly_pubkey_parse(a["pubKey32"]) = 1
                   /\ secp256k1_schnorrsig_verify(a["sig64"], a["msg"], a["msg"].len,
                                                  a["pubKey32"]) = 1
                THEN JNI_TRUE ELSE JNI_FALSE

\* C10: however many initContext calls are interleaved with the verification
\* calls of concurrent callers, every verification call has the result that
\* its arguments and the one context of the process determine, and every
\* initContext call returns the same handle, the context.
C10_InitContextIdempotent ==
    /\ Cardinality(handles) <= 1
    /\ \A t \in Threads :
          /\ (pc[t] = "done" /\ op[t] = "initContext") =>
                ret[t] = ctx /\ handles = {ctx}
          /\ Returned(t) => ret[t] = Outcome(op[t], args[t], bytes[t], ctx)

\* C10 witness: a verification call constructed the context and returned
\* true, and a concurrent initContext call returned that context.
C10_Witness ==
    \E t, u \in Threads :
        /\ Returned(t) /\ ret[t] = JNI_TRUE
        /\ Called(t, "secp256k1_context_create")
        /\ pc[u] = "done" /\ op[u] = "initContext"
        /\ ret[u] = ctx /\ ctx # NULL

\* Two calls of the same entry point with the same arrays.
SameCall(t, u) == Returned(t) /\ Returned(u) /\ op[t] = op[u] /\ args[t] = args[u]

Lifecycle == <<"INIT", "IN_PROGRESS", "DONE">>

Stage(s) == CHOOSE i \in 1..Len(Lifecycle) : Lifecycle[i] = s

\* C12: the lifecycle only moves Uninitialized -> Initializing -> Ready, one
\* stage at a time and never backwards, and once the context is Ready the
\* stored ctx is never written again.
C12_LifecycleMonotonic ==
    [][/\ Stage(ctx_init_once') \in {Stage(ctx_init_once), Stage(ctx_init_once) + 1}
       /\ ctx_init_once = "DONE" => (ctx_init_once' = "DONE" /\ ctx' = ctx)
       /\ ctx_init_once = "INIT" => ctx' = ctx]_vars

\* C12 witness: the context is Ready and a later call, which did not
\* construct it, has gone through get_context and returned.
C12_Witness ==
    \E t \in Threads :
        /\ ctx_init_once = "DONE" /\ ctx # NULL /\ creates = 1
        /\ pc[t] = "done"
        /\ ~Called(t, "secp256k1_context_create")
        /\ context[t] = ctx

\* Thread t is held in pthread_once while another thread constructs.
WaitsForConstruction(t) ==
    /\ pc[t] = "get_context"
    /\ ctx_init_once = "IN_PROGRESS"
    /\ \E u \in Threads \ {t} : pc[u] \in {"init_context", "init_done"}

\* C13: a call in progress can always take its next step, except in
\* get_context while another thread constructs the context; once the
\* construction has completed no call waits for any other thread.
C13_BlockedOnlyDuringConstruction ==
    \A t \in Threads :
        pc[t] # "idle" =>
            /\ ENABLED Step(t, FALSE) \/ WaitsForConstruction(t)
            /\ ctx_init_once = "DONE" => ENABLED Step(t, FALSE)

\* C13 witness: a schnorrVerify call is held in get_context, unable to step,
\* while another thread runs init_context.
C13_Witness ==
    \E t, u \in Threads :
        /\ op[t] = "schnorrVerify"
        /\ WaitsForConstruction(t)
        /\ ~ENABLED Step(t, FALSE)
        /\ pc[u] = "init_context"

At(t, f, r) == {i \in 1..Len(trace[t]) : trace[t][i].fn = f /\ trace[t][i].r = r}

AtAny(t, f) == {i \in 1..Len(trace[t]) : trace[t][i].fn = f}

\* C15: ecdsaVerify parses the public key, then the signature, then verifies,
\* and stops at the first failure: no signature parse without a successful
\* key parse before it, no verification without both; schnorrVerify does not
\* verify without a successful x-only parse before it.
C15_ParseOrderShortCircuit ==
    \A t \in Threads :
        /\ op[t] = "ecdsaVerify" =>
              /\ \A i \in AtAny(t, "secp256k1_ecdsa_signature_parse_compact") :
                    /\ \E j \in At(t, "secp256k1_ec_pubkey_parse", 1) : j < i
                    /\ At(t, "secp256k1_ec_pubkey_parse", 0) = {}
              /\ \A i \in AtAny(t, "secp256k1_ecdsa_verify") :
                    /\ \E j \in At(t, "secp256k1_ec_pubkey_parse", 1) :
                       \E k \in At(t, "secp256k1_ecdsa_signature_parse_compact", 1) :
                          j < k /\ k < i
                    /\ At(t, "secp256k1_ecdsa_signature_parse_compact", 0) = {}
        /\ op[t] = "schnorrVerify" =>
              \A i \in AtAny(t, "secp256k1_schnorrsig_verify") :
                    /\ \E j \in At(t, "secp256k1_xonly_pubkey_parse", 1) : j < i
                    /\ At(t, "secp256k1_xonly_pubkey_parse", 0) = {}

\* C15 witness: ecdsaVerify has returned after a failed public key parse
\* without having parsed the signature.
C15_Witness ==
    \E t \in Threads :
        /\ pc[t] = "done" /\ op[t] = "ecdsaVerify"
        /\ At(t, "secp256k1_ec_pubkey_parse", 0) # {}
        /\ AtAny(t, "secp256k1_ecdsa_signature_parse_compact") = {}
        /\ args[t]["sig64"].data # 0

\* C16: when an acquisition fails in ecdsaVerify or schnorrVerify, whichever
\* of the three, the call returns false, releases exactly the views it
\* obtained, each once, and calls no parse or verify function.
C16_AcquireFailureReleasesAcquired ==
    \A t \in Threads :
        (op[t] \in {"ecdsaVerify", "schnorrVerify"} /\ AcquireFailed(t)) =>
            /\ \A e \in Events(t) : e.fn \notin ParseFns \cup VerifyFns
            /\ \A n \in AllNames : Released(t, n) <= Acquired(t, n)
            /\ pc[t] \in {"views_check", "done"}
            /\ pc[t] = "done" =>
                  /\ ret[t] = JNI_FALSE
                  /\ \A n \in AllNames :
                        Released(t, n) = (IF bytes[t][n] THEN 1 ELSE 0)

\* C16 witness: schnorrVerify has returned after the acquisition of the
\* message alone failed, with the other two views released.
C16_Witness ==
    \E t \in Threads :
        /\ pc[t] = "done" /\ op[t] = "schnorrVerify"
        /\ bytes[t]["sig64"] /\ ~bytes[t]["msg"] /\ bytes[t]["pubKey32"]
        /\ Released(t, "sig64") = 1
        /\ Released(t, "msg") = 0
        /\ Released(t, "pubKey32") = 1

\* The one construction attempt has been made and has yielded no context.
ConstructionFailed == ctx_init_once = "DONE" /\ ctx = NULL

\* C17: a failed construction is not retried: afterwards no call constructs,
\* every verification call returns false and every initContext call
\* returns the null handle, for the rest of the run.
C17_FailedConstructionIsFinal ==
    /\ [](ConstructionFailed =>
            /\ creates = 1
            /\ \A t \in Threads :
                  /\ pc[t] \notin {"init_context", "init_done"}
                  /\ (pc[t] = "done" /\ op[t] = "initContext") => ret[t] = NULL
                  /\ (pc[t] = "done" /\ op[t] \in GatewayOps) => ret[t] = JNI_FALSE)
    /\ [][ConstructionFailed => (ConstructionFailed' /\ creates' = creates)]_vars

\* C17 witness: after the failed construction a later initContext call has
\* returned 0 and a later verification call has returned false.
C17_Witness ==
    \E t, u \in Threads :
        /\ ConstructionFailed
        /\ pc[t] = "done" /\ op[t] = "initContext" /\ ret[t] = NULL
        /\ ~Called(t, "secp256k1_context_create")
        /\ Returned(u) /\ ret[u] = JNI_FALSE
        /\ ~Called(u, "secp256k1_context_create")

\* C18: every view is released with JNI_ABORT, no step of a call changes
\* the arrays it was given, and once the context is Ready no step changes
\* the module's statics.
C18_NoEffectOnBuffersOrModule ==
    /\ [](\A t \in Threads : \A e \in Events(t) :
            e.fn = "ReleaseByteArrayElements" => e.r = JNI_ABORT)
    /\ [][/\ \A t \in Threads :
               (pc[t] # "idle" /\ pc'[t] # "idle") => args'[t] = args[t]
          /\ ctx_init_once = "DONE" =>
               (ctx' = ctx /\ ctx_init_once' = ctx_init_once /\ creates' = creates)]_vars

\* C18 witness: with the context Ready, schnorrVerify has returned true and
\* has released its three views.
C18_Witness ==
    \E t \in Threads :
        /\ pc[t] = "done" /\ op[t] = "schnorrVerify" /\ ret[t] = JNI_TRUE
        /\ ctx_init_once = "DONE"
        /\ ~Called(t, "secp256k1_context_create")
        /\ \A n \in BufNames(op[t]) : Released(t, n) = 1

====
